---- MODULE Spec2Model ----
(***************************************************************************)
(* Model of cloud.py: a Streamlit script that is executed from top to      *)
(* bottom once per UI interaction of a browser session.  Every execution   *)
(* ensures the Elasticsearch index, ingests the file held by the upload    *)
(* widget (temp file, fitz.open, ImageKit upload, one record per page,     *)
(* helpers.bulk) and then runs the search section.  Sessions run in        *)
(* separate threads and share the index, the remote store and the disk.    *)
(***************************************************************************)
EXTENDS Integers, Sequences, FiniteSets, Bags, TLC

\* ---------------------------------------------------------------- bounds
\* user interactions after the first page load, over all sessions
MaxInteractions == 2
\* pages of the longest valid document
MaxPages == 2

Sessions == {"s1", "s2"}
None == "None"

\* ------------------------------------------------------- inputs (documents)
\* A text is a sequence of units: " " is whitespace, anything else a word.
WS == " "
Token == "INVOICE-4471"

PageText(i) ==
    CASE i % 4 = 1 -> <<WS>>
      [] i % 4 = 2 -> <<WS, Token, WS>>
      [] i % 4 = 3 -> <<"alpha">>
      [] OTHER     -> <<"alpha", WS, "beta">>

\* the name of the file the user submits
DisplayName(n) == IF n % 2 = 1 THEN <<"sample", ".pdf">> ELSE <<"report", ".pdf">>

ValidDoc(n) ==
    [name |-> DisplayName(n), corrupt |-> FALSE,
     pages |-> [i \in 1..n |-> [readable |-> TRUE, text |-> PageText(i)]]]

CorruptDoc == [name |-> <<"corrupt", ".pdf">>, corrupt |-> TRUE, pages |-> <<>>]

DamagedDoc ==
    [name |-> <<"damaged", ".pdf">>, corrupt |-> FALSE,
     pages |-> <<[readable |-> TRUE, text |-> PageText(1)],
                 [readable |-> FALSE, text |-> <<>>]>>]

\* every document of up to MaxPages pages, and the two broken ones
AllDocs == {ValidDoc(n) : n \in 0..MaxPages} \cup {CorruptDoc, DamagedDoc}

\* the documents submitted where the sessions' steps interleave
Docs == {ValidDoc(0), ValidDoc(MaxPages), CorruptDoc, DamagedDoc}

\* the upload widget holds nothing (st.file_uploader returns None)
NoFile == [sub |-> 0, doc |-> ValidDoc(0)]

Queries == {<<>>, <<WS>>, <<Token>>}

\* ------------------------------------------------------- pure helpers
RECURSIVE LStrip(_)
LStrip(t) == IF t # <<>> /\ Head(t) = WS THEN LStrip(Tail(t)) ELSE t

RECURSIVE RStrip(_)
RStrip(t) ==
    IF t # <<>> /\ t[Len(t)] = WS THEN RStrip(SubSeq(t, 1, Len(t) - 1)) ELSE t

\* str.strip()
Strip(t) == RStrip(LStrip(t))

\* the analyzer of a "text" field: the words of a text
Terms(t) == {t[i] : i \in 1..Len(t)} \ {WS}

\* f"{pdf_cdn_link}#page={page_num + 1}"
PageLink(link, n) == <<link, "#page=", n>>

\* the URL the remote store returns for its k-th stored file
Url(k) == <<"https://ik.imagekit.io/file", k>>

\* the path of the k-th temporary file: a fresh name with the suffix .pdf
TempPath(k) == <<"/tmp/", "tmp", k, ".pdf">>

\* os.path.basename
Basename(path) == SubSeq(path, 2, Len(path))

\* variant: the loop index taken as the page number
PageNumber_M(page_num) == page_num
\* "page_number": page_num + 1
PageNumber(page_num) == page_num + 1

RECURSIVE SeqToBag(_)
SeqToBag(recs) ==
    IF recs = <<>> THEN EmptyBag
    ELSE SetToBag({Head(recs)}) (+) SeqToBag(Tail(recs))

\* the records of a batch at the positions J
Picked(recs, J) ==
    LET F[k \in 0..Len(recs)] ==
            IF k = 0 THEN EmptyBag
            ELSE IF k \in J THEN F[k - 1] (+) SetToBag({recs[k]})
            ELSE F[k - 1]
    IN  F[Len(recs)]

\* es.search with {"match": {"page_content": query}}
Hits(idx, q) ==
    LET S == {r \in BagToSet(idx) : Terms(r.page_content) \cap Terms(q) # {}}
    IN  [r \in S |-> idx[r]]

\* ------------------------------------------------------- state
VARIABLES
    indexExists,    \* the collection "pdf_documents" exists in the engine
    index,          \* its content: a bag of _source records (ids are automatic)
    issued,         \* URLs the remote store has returned
    files,          \* temporary files present on the local disk
    uploaded_file,  \* per session: what the upload widget holds
    query,          \* per session: the text of the search box
    pc,             \* per session: position of the running script
    temp_pdf_path, pdf_document, pdf_name, pdf_cdn_link, page_num, actions,
    results,        \* per session: locals of the running script
    outcome,        \* per session: how the ingestion part of the run ended
    shown,          \* per session: what the search section displayed
    trace,          \* per session: history of the current run
    nruns,          \* user interactions so far
    loaded,         \* per session: the page has been loaded once
    nsub,           \* files submitted so far
    ingests,        \* per submission: calls of process_and_store
    doneBag         \* records of all runs that ended Done

vars == <<indexExists, index, issued, files, uploaded_file, query, pc,
          temp_pdf_path, pdf_document, pdf_name, pdf_cdn_link, page_num,
          actions, results, outcome, shown, trace, nruns, loaded, nsub,
          ingests, doneBag>>

locals == <<temp_pdf_path, pdf_document, pdf_name, pdf_cdn_link, page_num,
            actions, results>>
widgets == <<uploaded_file, query>>
engine == <<indexExists, index>>
history == <<nruns, loaded, nsub, ingests, doneBag>>

NoTrace ==
    [existed |-> None, createIssued |-> FALSE, schemaError |-> FALSE,
     opened |-> FALSE, openFailed |-> FALSE, uploadIssued |-> FALSE,
     readAfterUpload |-> FALSE, readFailed |-> FALSE,
     bulkIssued |-> FALSE, bulkResult |-> None, submitted |-> <<>>,
     searched |-> FALSE]

Init ==
    /\ indexExists = FALSE
    /\ index = EmptyBag
    /\ issued = {}
    /\ files = {}
    /\ uploaded_file = [s \in Sessions |-> NoFile]
    /\ query = [s \in Sessions |-> <<>>]
    /\ pc = [s \in Sessions |-> "idle"]
    /\ temp_pdf_path = [s \in Sessions |-> <<>>]
    /\ pdf_document = [s \in Sessions |-> ValidDoc(0)]
    /\ pdf_name = [s \in Sessions |-> <<>>]
    /\ pdf_cdn_link = [s \in Sessions |-> <<>>]
    /\ page_num = [s \in Sessions |-> 0]
    /\ actions = [s \in Sessions |-> <<>>]
    /\ results = [s \in Sessions |-> EmptyBag]
    /\ outcome = [s \in Sessions |-> None]
    /\ shown = [s \in Sessions |-> "NotReached"]
    /\ trace = [s \in Sessions |-> NoTrace]
    /\ nruns = 0
    /\ loaded = [s \in Sessions |-> FALSE]
    /\ nsub = 0
    /\ ingests = [k \in {} |-> 0]
    /\ doneBag = EmptyBag

\* ------------------------------------------------------- script start
\* Streamlit executes the whole script again: all locals start afresh.
StartRun(s) ==
    /\ pc[s] = "idle"
    /\ loaded' = [loaded EXCEPT ![s] = TRUE]
    /\ pc' = [pc EXCEPT ![s] = "exists"]
    /\ temp_pdf_path' = [temp_pdf_path EXCEPT ![s] = <<>>]
    /\ pdf_document' = [pdf_document EXCEPT ![s] = ValidDoc(0)]
    /\ pdf_name' = [pdf_name EXCEPT ![s] = <<>>]
    /\ pdf_cdn_link' = [pdf_cdn_link EXCEPT ![s] = <<>>]
    /\ page_num' = [page_num EXCEPT ![s] = 0]
    /\ actions' = [actions EXCEPT ![s] = <<>>]
    /\ results' = [results EXCEPT ![s] = EmptyBag]
    /\ outcome' = [outcome EXCEPT ![s] = None]
    /\ shown' = [shown EXCEPT ![s] = "NotReached"]
    /\ trace' = [trace EXCEPT ![s] = NoTrace]
    /\ UNCHANGED <<engine, issued, files, doneBag>>

\* a user interaction: each one makes Streamlit run the script again
Interact(s) ==
    /\ loaded[s]
    /\ nruns < MaxInteractions
    /\ nruns' = nruns + 1
    /\ StartRun(s)

\* the session opens the page: the first execution of the script
Load(s) ==
    /\ ~loaded[s]
    /\ StartRun(s)
    /\ UNCHANGED <<widgets, nruns, nsub, ingests>>

\* the script is rerun with the widgets as they are
Rerun(s) ==
    /\ Interact(s)
    /\ UNCHANGED <<widgets, nsub, ingests>>

\* the user puts a file into st.file_uploader
SubmitFile(s, d) ==
    /\ Interact(s)
    /\ nsub' = nsub + 1
    /\ uploaded_file' = [uploaded_file EXCEPT ![s] = [sub |-> nsub + 1, doc |-> d]]
    /\ ingests' = [k \in 1..(nsub + 1) |-> IF k <= nsub THEN ingests[k] ELSE 0]
    /\ UNCHANGED query

\* the user changes the text of st.text_input
SetQuery(s, q) ==
    /\ q # query[s]
    /\ Interact(s)
    /\ query' = [query EXCEPT ![s] = q]
    /\ UNCHANGED <<uploaded_file, nsub, ingests>>

\* ------------------------------------------------------- ensure index
\* variant: create without looking
NeedCreate_M(exists) == TRUE
\* not es.indices.exists(index=index_name)
NeedCreate(exists) == ~exists

\* if not es.indices.exists(index=index_name):
CheckIndex(s) ==
    /\ pc[s] = "exists"
    /\ trace' = [trace EXCEPT ![s].existed =
                      IF indexExists THEN "present" ELSE "absent"]
    /\ pc' = [pc EXCEPT ![s] =
                IF NeedCreate(indexExists) THEN "create" ELSE "uploader"]
    /\ UNCHANGED <<engine, issued, files, widgets, locals, outcome, shown,
                   history>>

\* es.indices.create(...): the engine rejects a name that is taken
CreateIndex(s) ==
    /\ pc[s] = "create"
    /\ indexExists' = TRUE
    /\ IF indexExists
       THEN /\ trace' = [trace EXCEPT ![s].createIssued = TRUE,
                                      ![s].schemaError = TRUE]
            /\ outcome' = [outcome EXCEPT ![s] = "Raised"]
            /\ pc' = [pc EXCEPT ![s] = "idle"]
       ELSE /\ trace' = [trace EXCEPT ![s].createIssued = TRUE]
            /\ outcome' = outcome
            /\ pc' = [pc EXCEPT ![s] = "uploader"]
    /\ UNCHANGED <<index, issued, files, widgets, locals, shown, history>>

\* ------------------------------------------------------- upload section
\* variant: the file is not parsed before the upload
OpenRaises_M(doc) == FALSE
\* fitz.open raises on a file it cannot parse
OpenRaises(doc) == doc.corrupt

\* if uploaded_file: write the buffer to a NamedTemporaryFile(delete=False)
\* and call process_and_store(temp_pdf_path), which starts with
\* pdf_document = fitz.open(pdf_path); pdf_name = os.path.basename(pdf_path)
UploadSection(s) ==
    /\ pc[s] = "uploader"
    /\ IF uploaded_file[s] # NoFile
       THEN LET path == TempPath(Cardinality(files) + 1) IN
            /\ files' = files \cup {path}
            /\ temp_pdf_path' = [temp_pdf_path EXCEPT ![s] = path]
            /\ ingests' = [ingests EXCEPT ![uploaded_file[s].sub] = @ + 1]
            /\ IF OpenRaises(uploaded_file[s].doc)
               THEN /\ trace' = [trace EXCEPT ![s].openFailed = TRUE]
                    /\ outcome' = [outcome EXCEPT ![s] = "Raised"]
                    /\ pc' = [pc EXCEPT ![s] = "idle"]
                    /\ UNCHANGED <<pdf_document, pdf_name>>
               ELSE /\ trace' = [trace EXCEPT ![s].opened = TRUE]
                    /\ pdf_document' =
                           [pdf_document EXCEPT ![s] = uploaded_file[s].doc]
                    /\ pdf_name' = [pdf_name EXCEPT ![s] = Basename(path)]
                    /\ pc' = [pc EXCEPT ![s] = "upload"]
                    /\ UNCHANGED outcome
       ELSE /\ pc' = [pc EXCEPT ![s] = "query"]
            /\ UNCHANGED <<files, temp_pdf_path, ingests, trace, outcome,
                           pdf_document, pdf_name>>
    /\ UNCHANGED <<engine, issued, widgets, pdf_cdn_link, page_num, actions,
                   results, shown, nruns, loaded, nsub, doneBag>>

UploadOutcomes == {"ok", "no_url", "raised"}

\* upload_to_imagekit: the URL, or None when the call raises or the
\* response has no url
UploadReturn(res, url) == IF res = "ok" THEN url ELSE <<>>

\* variant: the returned URL is not tested
UploadFailed_M(link) == FALSE
\* if not pdf_cdn_link: return None
UploadFailed(link) == link = <<>>

\* pdf_cdn_link = upload_to_imagekit(pdf_path, pdf_name)
Upload(s) ==
    /\ pc[s] = "upload"
    /\ \E res \in UploadOutcomes :
         LET link == UploadReturn(res, Url(Cardinality(issued) + 1)) IN
         /\ issued' = IF res = "ok" THEN issued \cup {link} ELSE issued
         /\ pdf_cdn_link' = [pdf_cdn_link EXCEPT ![s] = link]
         /\ trace' = [trace EXCEPT ![s].uploadIssued = TRUE]
         /\ IF UploadFailed(link)
            THEN /\ outcome' = [outcome EXCEPT ![s] = "Failed"]
                 /\ pc' = [pc EXCEPT ![s] = "query"]
            ELSE /\ outcome' = outcome
                 /\ pc' = [pc EXCEPT ![s] = "pages"]
    /\ UNCHANGED <<engine, files, widgets, temp_pdf_path, pdf_document,
                   pdf_name, page_num, actions, results, shown, history>>

\* the record built for one page (the "_source" of the bulk action)
PageRecord(name, link, pnum, text) ==
    [pdf_name |-> name,
     page_number |-> PageNumber(pnum),
     page_content |-> Strip(text),
     imagekit_link |-> PageLink(link, pnum + 1)]

\* the loop  for page_num in range(len(pdf_document))  from page_num on:
\* the actions built and the page reached; page.get_text raises on a page
\* that cannot be read and ends the loop there
RECURSIVE PageLoop(_, _, _, _, _)
PageLoop(doc, name, link, pnum, acts) ==
    IF pnum >= Len(doc.pages) THEN [actions |-> acts, page_num |-> pnum, raised |-> FALSE]
    ELSE IF ~doc.pages[pnum + 1].readable
         THEN [actions |-> acts, page_num |-> pnum, raised |-> TRUE]
         ELSE PageLoop(doc, name, link, pnum + 1,
                       Append(acts, PageRecord(name, link, pnum,
                                               doc.pages[pnum + 1].text)))

\* ------------------------------------------------------- bulk insert
\* What one helpers.bulk call can do with a batch: index all of it; have
\* the engine reject some records (the others are indexed); or fail in
\* transport.  An empty batch sends no request.
BulkOutcomes(recs) ==
    LET all == 1..Len(recs) IN
    IF recs = <<>> THEN {[kind |-> "ok", accepted |-> {}]}
    ELSE {[kind |-> "ok", accepted |-> all],
          [kind |-> "transport", accepted |-> {}]}
         \cup {[kind |-> "record_errors", accepted |-> J] :
                    J \in (SUBSET all) \ {all}}

\* variant: raise_on_error=False, failed records are only reported
BulkRaises_M(res) == res.kind = "transport"
\* helpers.bulk is called with its default raise_on_error=True: it raises
\* BulkIndexError when the engine reports a failed record, and lets a
\* transport error through
BulkRaises(res) == res.kind # "ok"

\* variant: the page number used as "_id", a record replaces its namesake
BulkIndex_M(idx, batch) ==
    LET keep == {r \in BagToSet(idx) :
                    \A b \in BagToSet(batch) : b.page_number # r.page_number}
    IN  [r \in keep |-> idx[r]] (+) batch
\* the actions carry no "_id": every accepted record is a new entry
BulkIndex(idx, batch) == idx (+) batch

\* process_and_store after the upload, and what the upload section shows:
\* actions = []; the page loop; bulk(es, actions); return pdf_cdn_link;
\* st.success when the returned URL is truthy, st.error otherwise
IndexPages(s) ==
    /\ pc[s] = "pages"
    /\ LET r == PageLoop(pdf_document[s], pdf_name[s], pdf_cdn_link[s], 0, <<>>) IN
       /\ actions' = [actions EXCEPT ![s] = r.actions]
       /\ page_num' = [page_num EXCEPT ![s] = r.page_num]
       /\ IF r.raised
          THEN /\ trace' = [trace EXCEPT
                              ![s].readAfterUpload = trace[s].uploadIssued,
                              ![s].readFailed = TRUE]
               /\ outcome' = [outcome EXCEPT ![s] = "Raised"]
               /\ pc' = [pc EXCEPT ![s] = "idle"]
               /\ UNCHANGED <<index, doneBag>>
          ELSE \E res \in BulkOutcomes(r.actions) :
               /\ index' = BulkIndex(index, Picked(r.actions, res.accepted))
               /\ trace' = [trace EXCEPT
                              ![s].readAfterUpload = trace[s].uploadIssued,
                              ![s].bulkIssued = TRUE,
                              ![s].bulkResult = res.kind,
                              ![s].submitted = r.actions]
               /\ IF BulkRaises(res)
                  THEN /\ outcome' = [outcome EXCEPT ![s] = "Raised"]
                       /\ pc' = [pc EXCEPT ![s] = "idle"]
                       /\ UNCHANGED doneBag
                  ELSE /\ outcome' = [outcome EXCEPT ![s] =
                              IF pdf_cdn_link[s] # <<>> THEN "Done" ELSE "Failed"]
                       /\ pc' = [pc EXCEPT ![s] = "query"]
                       /\ doneBag' = doneBag (+) SeqToBag(r.actions)
    /\ UNCHANGED <<indexExists, issued, files, widgets, temp_pdf_path,
                   pdf_document, pdf_name, pdf_cdn_link, results, shown,
                   nruns, loaded, nsub, ingests>>

\* ------------------------------------------------------- search section
\* variant: the search runs whatever the query
QueryGiven_M(q) == TRUE
\* if query:
QueryGiven(q) == q # <<>>

\* query = st.text_input(...); if query: results = search_pdfs(query);
\* the hits are written, or st.warning when there are none
SearchSection(s) ==
    /\ pc[s] = "query"
    /\ IF QueryGiven(query[s])
       THEN LET hits == Hits(index, query[s]) IN
            /\ results' = [results EXCEPT ![s] = hits]
            /\ shown' = [shown EXCEPT ![s] =
                            IF hits # EmptyBag THEN "Results" ELSE "Warning"]
            /\ trace' = [trace EXCEPT ![s].searched = TRUE]
       ELSE /\ shown' = [shown EXCEPT ![s] = "Nothing"]
            /\ UNCHANGED <<results, trace>>
    /\ pc' = [pc EXCEPT ![s] = "idle"]
    /\ UNCHANGED <<engine, issued, files, widgets, temp_pdf_path, pdf_document,
                   pdf_name, pdf_cdn_link, page_num, actions, outcome, history>>

\* ------------------------------------------------------- specifications
Step(s) ==
    \/ Load(s)
    \/ Rerun(s)
    \/ \E d \in Docs : SubmitFile(s, d)
    \/ \E q \in Queries : SetQuery(s, q)
    \/ CheckIndex(s)
    \/ CreateIndex(s)
    \/ UploadSection(s)
    \/ Upload(s)
    \/ IndexPages(s)
    \/ SearchSection(s)

\* sessions run in threads of their own: their steps interleave
Next == \E s \in Sessions : Step(s)

Spec == Init /\ [][Next]_vars

\* script executions one after the other: a session steps only while no
\* other session's run is under way
Alone(s) == \A t \in Sessions \ {s} : pc[t] = "idle"

NextSeq ==
    \E s \in Sessions :
        \/ Alone(s) /\ Load(s)
        \/ Alone(s) /\ Rerun(s)
        \/ Alone(s) /\ \E d \in AllDocs : SubmitFile(s, d)
        \/ Alone(s) /\ \E q \in Queries : SetQuery(s, q)
        \/ Alone(s) /\ CheckIndex(s)
        \/ Alone(s) /\ CreateIndex(s)
        \/ Alone(s) /\ UploadSection(s)
        \/ Alone(s) /\ Upload(s)
        \/ Alone(s) /\ IndexPages(s)
        \/ Alone(s) /\ SearchSection(s)

SpecSeq == Init /\ [][NextSeq]_vars

\* ------------------------------------------------------- properties
\* a run of session s has ended and its locals are still to be seen
Ended(s) == pc[s] = "idle" /\ loaded[s]

Valid(doc) == ~doc.corrupt /\ \A i \in 1..Len(doc.pages) : doc.pages[i].readable

\* the pages of a document whose text has the word w
PagesWith(doc, w) == {i \in 1..Len(doc.pages) : w \in Terms(doc.pages[i].text)}

\* C1: a valid document of N pages whose upload returned a URL gives, once
\* the page loop is over, one bulk call with exactly N records: record i
\* has page_number i and the words of page i, all records have one
\* pdf_name, the links are the URL followed by #page=<page_number> and are
\* pairwise distinct, and a page without text gives an empty page_content.
C1_OneRecordPerPage ==
    \A s \in Sessions :
        LET doc == uploaded_file[s].doc
            recs == trace[s].submitted
            N == Len(doc.pages)
        IN  (/\ Valid(doc)
             /\ trace[s].uploadIssued
             /\ pdf_cdn_link[s] # <<>>
             /\ pc[s] # "pages")
            => /\ trace[s].bulkIssued
               /\ Len(recs) = N
               /\ \A i \in 1..N :
                    /\ recs[i].page_number = i
                    /\ recs[i].pdf_name = pdf_name[s]
                    /\ recs[i].imagekit_link =
                           <<pdf_cdn_link[s], "#page=", recs[i].page_number>>
                    /\ Terms(recs[i].page_content) = Terms(doc.pages[i].text)
                    /\ (Terms(doc.pages[i].text) = {}
                            => recs[i].page_content = <<>>)
               /\ \A i, j \in 1..N :
                    i # j => recs[i].imagekit_link # recs[j].imagekit_link

C1_Witness ==
    \E s \in Sessions :
        /\ trace[s].bulkIssued
        /\ Len(trace[s].submitted) >= 2
        /\ \E i \in 1..Len(trace[s].submitted) :
               trace[s].submitted[i].page_content = <<>>

\* C2: when the upload returns no URL (the call raised, or the response
\* had no url) the run submits no record, shows the failure message and
\* returns no locator; and every record of the index has a link made from
\* a URL the remote store has returned.
C2_UploadFailureIndexesNothing ==
    /\ \A s \in Sessions :
         (trace[s].uploadIssued /\ pdf_cdn_link[s] = <<>>)
            => /\ ~trace[s].bulkIssued
               /\ trace[s].submitted = <<>>
               /\ actions[s] = <<>>
               /\ outcome[s] = "Failed"
    /\ \A r \in BagToSet(index) :
         \E u \in issued : r.imagekit_link = PageLink(u, r.imagekit_link[3])

C2_Witness ==
    \E s \in Sessions :
        /\ Ended(s)
        /\ trace[s].uploadIssued
        /\ pdf_cdn_link[s] = <<>>
        /\ outcome[s] = "Failed"
        /\ index # EmptyBag

\* C3 as claimed: a run in which extraction fails (the document cannot be
\* opened, or a page cannot be read) has made no upload attempt and no
\* index write, and no page is read after the upload call was issued.
C3_ExtractionBeforeUpload ==
    \A s \in Sessions :
        /\ (trace[s].openFailed \/ trace[s].readFailed)
              => (~trace[s].uploadIssued /\ ~trace[s].bulkIssued)
        /\ ~trace[s].readAfterUpload

\* C3 as amended: process_and_store on a file that cannot be opened ends
\* the run with the exception before any upload attempt and any index
\* write; pages are read only after the upload was issued, and a page that
\* cannot be read ends the run after the upload and before any index write.
C3_OpenFailureBeforeUpload ==
    \A s \in Sessions :
        /\ (temp_pdf_path[s] # <<>> /\ uploaded_file[s].doc.corrupt)
              => /\ ~trace[s].uploadIssued
                 /\ ~trace[s].bulkIssued
                 /\ outcome[s] = "Raised"
                 /\ pc[s] = "idle"
        /\ trace[s].readFailed
              => /\ trace[s].uploadIssued
                 /\ ~trace[s].bulkIssued
                 /\ outcome[s] = "Raised"
        /\ (actions[s] # <<>> \/ trace[s].readFailed)
              => trace[s].readAfterUpload

C3_Witness ==
    /\ \E s \in Sessions :
         /\ temp_pdf_path[s] # <<>>
         /\ uploaded_file[s].doc.corrupt
         /\ outcome[s] = "Raised"
    /\ \E s \in Sessions : trace[s].readFailed /\ trace[s].uploadIssued

\* C4: a run that ingested (Done) a document submitted under the name D,
\* of which page p alone has the token, and then searched for the token
\* while no other record of the index has it, got exactly one hit, with
\* page_number p and pdf_name D.
C4_RoundTrip ==
    \A s \in Sessions :
        LET doc == uploaded_file[s].doc IN
        (/\ Ended(s)
         /\ outcome[s] = "Done"
         /\ trace[s].searched
         /\ query[s] = <<Token>>
         /\ Cardinality(PagesWith(doc, Token)) = 1
         /\ BagCardinality(Hits(index, <<Token>>)) = 1)
        => /\ BagCardinality(results[s]) = 1
           /\ \A h \in BagToSet(results[s]) :
                /\ h.page_number \in PagesWith(doc, Token)
                /\ h.pdf_name = doc.name

\* C5: es.search is called only in runs whose query is not empty, and a
\* run with the empty query shows neither results nor a warning.
C5_EmptyQueryNoSearch ==
    \A s \in Sessions :
        /\ trace[s].searched => query[s] # <<>>
        /\ (Ended(s) /\ query[s] = <<>>)
              => /\ results[s] = EmptyBag
                 /\ shown[s] \in {"Nothing", "NotReached"}

C5_Witness ==
    \E s \in Sessions :
        /\ Ended(s)
        /\ query[s] = <<>>
        /\ shown[s] = "Nothing"
        /\ Hits(index, <<Token>>) # EmptyBag

\* C6: with script executions one after the other, the ensure step never
\* fails, issues a create request only when its check found the index
\* absent, and leaves the index present.
C6_EnsureIdempotent ==
    \A s \in Sessions :
        /\ ~trace[s].schemaError
        /\ trace[s].createIssued => trace[s].existed = "absent"
        /\ (trace[s].existed # None /\ pc[s] # "create") => indexExists

C6_Witness ==
    \E s, t \in Sessions :
        /\ s # t
        /\ Ended(s) /\ Ended(t)
        /\ trace[s].createIssued
        /\ trace[t].existed = "present" /\ ~trace[t].createIssued

\* C7: once a run has ended, the temporary file it created is gone.
C7_TempFileDeleted ==
    \A s \in Sessions :
        (Ended(s) /\ temp_pdf_path[s] # <<>>) => temp_pdf_path[s] \notin files

\* C8 as claimed: a run whose batch was submitted ends Done also when the
\* engine reports failed records, and ends otherwise only on a transport
\* error of the call.
C8_DoneDespiteRecordErrors ==
    \A s \in Sessions :
        trace[s].bulkIssued
           => /\ trace[s].bulkResult = "record_errors" => outcome[s] = "Done"
              /\ outcome[s] # "Done" => trace[s].bulkResult = "transport"

\* C8 as amended: a run whose batch was submitted ends Done exactly when
\* the bulk call returns without raising, which is when the engine reports
\* no failed record; on failed records, as on a transport error, the call
\* raises and the run ends with that exception, showing neither message.
C8_DoneOnlyIfBulkReturns ==
    \A s \in Sessions :
        trace[s].bulkIssued
           => /\ outcome[s] = "Done" <=> trace[s].bulkResult = "ok"
              /\ trace[s].bulkResult \in {"record_errors", "transport"}
                    => /\ outcome[s] = "Raised"
                       /\ pc[s] = "idle"
                       /\ shown[s] = "NotReached"

C8_Witness ==
    \E s \in Sessions :
        /\ trace[s].bulkIssued
        /\ trace[s].bulkResult = "record_errors"
        /\ outcome[s] = "Raised"
        /\ \E i \in 1..Len(trace[s].submitted) :
               BagIn(trace[s].submitted[i], index)

\* C9: the index holds every record of every run that ended Done, as many
\* times as such runs submitted it: no run replaces or removes what
\* another run has indexed.
C9_NoOverwrite ==
    /\ doneBag \sqsubseteq index
    /\ BagCardinality(index) >= BagCardinality(doneBag)

\* two uploads of the same document, one per session, both Done
C9_Witness ==
    /\ \A s \in Sessions : outcome[s] = "Done" /\ Len(actions[s]) >= 2
    /\ \A s, t \in Sessions : uploaded_file[s].doc = uploaded_file[t].doc
    /\ BagCardinality(doneBag) >= 4

\* C10: process_and_store is called at most once for a submitted file.
C10_OneIngestionPerSubmission ==
    \A k \in DOMAIN ingests : ingests[k] <= 1

====
